---- MODULE Spec2Model ----
(***************************************************************************)
(* Model of src/services/errorHandler.ts: handleApiError, the classifier   *)
(* that maps a caught API error to a user-facing string, calls the admin   *)
(* webhook and may dispatch one credential-recovery event.                 *)
(*                                                                         *)
(* Messages are TLA+ strings; the JavaScript string operations the code    *)
(* uses (toLowerCase, includes, match, split, length, JSON.parse, String)  *)
(* are operators that compute character by character.                      *)
(***************************************************************************)
EXTENDS Integers, Sequences, FiniteSets, TLC

(***************************************************************************)
(* Bounds of the input space.                                              *)
(***************************************************************************)
\* An input message is the concatenation of at most MaxFrags fragments.
MaxFrags == 3

(***************************************************************************)
(* Characters and JavaScript string primitives.                            *)
(***************************************************************************)
UpperLetters == "ABCDEFGHIJKLMNOPQRSTUVWXYZ"
LowerLetters == "abcdefghijklmnopqrstuvwxyz"
Digits == "0123456789"

\* s.charAt(i) with 1-based i; "" outside the string.
CharAt(s, i) == IF i >= 1 /\ i <= Len(s) THEN SubSeq(s, i, i) ELSE ""

\* The characters of a string, as a set of one-character strings.
CharsOf(s) == {SubSeq(s, i, i) : i \in 1..Len(s)}

UpperSet == CharsOf(UpperLetters)
DigitSet == CharsOf(Digits)
WordSet == CharsOf(UpperLetters) \cup CharsOf(LowerLetters) \cup CharsOf(Digits) \cup {"_"}

\* Character-wise String.prototype.toLowerCase (the inputs are ASCII).
LowerMap ==
    [c \in UpperSet |->
        LET i == CHOOSE k \in 1..Len(UpperLetters) : SubSeq(UpperLetters, k, k) = c
        IN  SubSeq(LowerLetters, i, i)]

LowerChar(c) == IF c \in UpperSet THEN LowerMap[c] ELSE c

RECURSIVE toLowerCase(_)
toLowerCase(s) ==
    IF Len(s) <= 1 THEN LowerChar(s)
    ELSE IF \A i \in 1..Len(s) : SubSeq(s, i, i) \notin UpperSet THEN s
    ELSE LET half == Len(s) \div 2
         IN  toLowerCase(SubSeq(s, 1, half)) \o toLowerCase(SubSeq(s, half + 1, Len(s)))

\* String.prototype.includes(k) for a non-empty k.
includes(s, k) ==
    \E i \in 1..(Len(s) - Len(k) + 1) : SubSeq(s, i, i + Len(k) - 1) = k

\* Positions of the character c in s.
IndicesOf(s, c) == {i \in 1..Len(s) : SubSeq(s, i, i) = c}

Min(S) == CHOOSE x \in S : \A y \in S : x <= y
Max(S) == CHOOSE x \in S : \A y \in S : x >= y

\* Variant of FirstLineOf: the message is not split.
WholeMessage(s) == s

\* message.split('\n')[0]: the text before the first newline.
FirstLineOf(s) ==
    IF IndicesOf(s, "\n") = {} THEN s
    ELSE SubSeq(s, 1, Min(IndicesOf(s, "\n")) - 1)

\* \d and \w of the regular expressions.
IsDigit(c) == c \in DigitSet
IsWordChar(c) == c \in WordSet

\* \b before position i of s (between the characters i-1 and i).
WordBoundary(s, i) == IsWordChar(CharAt(s, i - 1)) # IsWordChar(CharAt(s, i))

ThreeDigitsAt(s, i) ==
    IsDigit(CharAt(s, i)) /\ IsDigit(CharAt(s, i + 1)) /\ IsDigit(CharAt(s, i + 2))

\* /\[(\d{3})\]/ matches with the '[' at position i.
BracketedAt(s, i) ==
    CharAt(s, i) = "[" /\ ThreeDigitsAt(s, i + 1) /\ CharAt(s, i + 4) = "]"

\* /\b(\d{3})\b/ matches at position i.
StandaloneAt(s, i) ==
    ThreeDigitsAt(s, i) /\ WordBoundary(s, i) /\ WordBoundary(s, i + 3)

\* message.match(/\[(\d{3})\]|\b(\d{3})\b/): codeMatch[1] || codeMatch[2] of
\* the leftmost match, "" when there is no match.
codeMatch(s) ==
    LET hits == {i \in 1..Len(s) : BracketedAt(s, i) \/ StandaloneAt(s, i)}
    IN  IF hits = {} THEN ""
        ELSE LET i == Min(hits)
             IN  IF BracketedAt(s, i) THEN SubSeq(s, i + 1, i + 3)
                 ELSE SubSeq(s, i, i + 2)

\* message.match(/(\{.*\})/s): the span from the first '{' to the last '}'
\* (greedy, dot matches newlines), "" when there is no match.
jsonMatch(s) ==
    LET opens == IndicesOf(s, "{")
        closes == IndicesOf(s, "}")
    IN  IF opens = {} \/ closes = {} \/ Max(closes) < Min(opens) THEN ""
        ELSE SubSeq(s, Min(opens), Max(closes))

(***************************************************************************)
(* JSON.parse, by recursive descent.  A JSON value is a record: t is its   *)
(* type, s its text (numbers, strings, booleans) and kids its members      *)
(* (objects: a sequence of [k, v]) or its elements (arrays).  Numbers are  *)
(* the non-negative integers, strings have no escape sequences: the input  *)
(* alphabet has no '-', '.' or backslash.                                  *)
(***************************************************************************)
JsUndefined == [t |-> "undefined", s |-> "", kids |-> <<>>]
JsNull == [t |-> "null", s |-> "null", kids |-> <<>>]
JsBool(b) == [t |-> "bool", s |-> b, kids |-> <<>>]
JsNum(n) == [t |-> "num", s |-> n, kids |-> <<>>]
JsStr(x) == [t |-> "str", s |-> x, kids |-> <<>>]
JsObj(members) == [t |-> "obj", s |-> "", kids |-> members]
JsArr(items) == [t |-> "arr", s |-> "", kids |-> items]

\* A parse step: ok, the value read and the position after it.
ParseOk(v, p) == [ok |-> TRUE, val |-> v, pos |-> p]
\* SyntaxError.
ParseFail == [ok |-> FALSE, val |-> JsUndefined, pos |-> 0]

IsJsonWs(c) == c = " " \/ c = "\n" \/ c = "\t" \/ c = "\r"

RECURSIVE SkipWs(_, _)
SkipWs(s, i) == IF IsJsonWs(CharAt(s, i)) THEN SkipWs(s, i + 1) ELSE i

\* A string literal whose opening quote is at i.
ParseString(s, i) ==
    LET quotes == {j \in (i + 1)..Len(s) : SubSeq(s, j, j) = "\""}
    IN  IF quotes = {} THEN ParseFail
        ELSE LET j == Min(quotes)
                 body == SubSeq(s, i + 1, j - 1)
             IN  IF \E k \in 1..Len(body) :
                        SubSeq(body, k, k) \in {"\n", "\t", "\r", "\\"}
                 THEN ParseFail
                 ELSE ParseOk(JsStr(body), j + 1)

RECURSIVE DigitsEnd(_, _)
DigitsEnd(s, i) == IF IsDigit(CharAt(s, i)) THEN DigitsEnd(s, i + 1) ELSE i

\* A number whose first digit is at i: "0" or a run without a leading zero.
ParseNumber(s, i) ==
    IF CharAt(s, i) = "0" THEN ParseOk(JsNum("0"), i + 1)
    ELSE ParseOk(JsNum(SubSeq(s, i, DigitsEnd(s, i) - 1)), DigitsEnd(s, i))

RECURSIVE ParseValue(_, _), ParseMembers(_, _, _), ParseElements(_, _, _)
\* A value whose first character is at i.
ParseValue(s, i) ==
    LET c == CharAt(s, i)
    IN  CASE c = "{" ->
               LET j == SkipWs(s, i + 1)
               IN  IF CharAt(s, j) = "}" THEN ParseOk(JsObj(<<>>), j + 1)
                   ELSE ParseMembers(s, j, <<>>)
          [] c = "[" ->
               LET j == SkipWs(s, i + 1)
               IN  IF CharAt(s, j) = "]" THEN ParseOk(JsArr(<<>>), j + 1)
                   ELSE ParseElements(s, j, <<>>)
          [] c = "\"" -> ParseString(s, i)
          [] IsDigit(c) -> ParseNumber(s, i)
          [] i + 3 <= Len(s) /\ SubSeq(s, i, i + 3) = "true" -> ParseOk(JsBool("true"), i + 4)
          [] i + 4 <= Len(s) /\ SubSeq(s, i, i + 4) = "false" -> ParseOk(JsBool("false"), i + 5)
          [] i + 3 <= Len(s) /\ SubSeq(s, i, i + 3) = "null" -> ParseOk(JsNull, i + 4)
          [] OTHER -> ParseFail

\* The members of an object from position i (a key is expected there).
ParseMembers(s, i, acc) ==
    IF CharAt(s, i) # "\"" THEN ParseFail
    ELSE LET key == ParseString(s, i)
         IN  IF ~key.ok THEN ParseFail
             ELSE LET colon == SkipWs(s, key.pos)
                  IN  IF CharAt(s, colon) # ":" THEN ParseFail
                      ELSE LET v == ParseValue(s, SkipWs(s, colon + 1))
                           IN  IF ~v.ok THEN ParseFail
                               ELSE LET e == SkipWs(s, v.pos)
                                        all == Append(acc, [k |-> key.val.s, v |-> v.val])
                                    IN  CASE CharAt(s, e) = "," ->
                                               ParseMembers(s, SkipWs(s, e + 1), all)
                                          [] CharAt(s, e) = "}" -> ParseOk(JsObj(all), e + 1)
                                          [] OTHER -> ParseFail

\* The elements of an array from position i (a value is expected there).
ParseElements(s, i, acc) ==
    LET v == ParseValue(s, i)
    IN  IF ~v.ok THEN ParseFail
        ELSE LET e == SkipWs(s, v.pos)
                 all == Append(acc, v.val)
             IN  CASE CharAt(s, e) = "," -> ParseElements(s, SkipWs(s, e + 1), all)
                   [] CharAt(s, e) = "]" -> ParseOk(JsArr(all), e + 1)
                   [] OTHER -> ParseFail

\* JSON.parse(text): one value, surrounded by optional whitespace.
JSONparse(text) ==
    LET r == ParseValue(text, SkipWs(text, 1))
    IN  IF r.ok /\ SkipWs(text, r.pos) = Len(text) + 1 THEN r ELSE ParseFail

\* v?.[key]: the last member named key of an object, undefined otherwise.
GetProp(v, key) ==
    IF v.t # "obj" THEN JsUndefined
    ELSE LET hits == {i \in 1..Len(v.kids) : v.kids[i].k = key}
         IN  IF hits = {} THEN JsUndefined ELSE v.kids[Max(hits)].v

\* ToBoolean.
Truthy(v) ==
    CASE v.t \in {"undefined", "null"} -> FALSE
      [] v.t = "bool" -> v.s = "true"
      [] v.t = "num" -> v.s # "0"
      [] v.t = "str" -> v.s # ""
      [] OTHER -> TRUE

RECURSIVE JsString(_), JoinArr(_)
\* String(v).
JsString(v) ==
    CASE v.t = "obj" -> "[object Object]"
      [] v.t = "arr" -> JoinArr(v.kids)
      [] v.t = "undefined" -> "undefined"
      [] OTHER -> v.s

\* Array.prototype.join(','): null elements print as the empty string.
JoinArr(items) ==
    IF items = <<>> THEN ""
    ELSE LET h == IF Head(items).t \in {"null", "undefined"} THEN "" ELSE JsString(Head(items))
         IN  IF Len(items) = 1 THEN h ELSE h \o "," \o JoinArr(Tail(items))

(***************************************************************************)
(* The pieces of handleApiError.  An error code is a string; the empty     *)
(* string stands for undefined (the code only ever tests !errorCode and    *)
(* compares with non-empty literals, so the two are indistinguishable).    *)
(***************************************************************************)
MsgVeo == "VEO authorization failed. Please try again or check your API key."
MsgApiKey == "API Key is invalid or expired. Please try again or check your API key."
MsgSafety == "Request blocked by safety filters. Please try a different prompt or image."
MsgCapacity == "Server Penuh. Sila tunggu sebentar sebelum mencuba lagi."
MsgUnavailable == "Google API is temporarily unavailable. Please try again in a few moments."
MsgNetwork == "Network error. Please check your internet connection."
MsgGeneric == "An unexpected error occurred. Please try again. If the problem persists, check the AI API Log for details."
VendorTag == "[GoogleGenerativeAI Error]"
MaxFirstLine == 150

VeoSignal == "initiateAutoVeoKeyClaim"
ApiKeySignal == "initiateAutoApiKeyClaim"

\* Variant of priorityCode: the branches in the other order.
priorityCodeSafetyFirst(lc) ==
    IF includes(lc, "bad request") /\ (includes(lc, "safety") \/ includes(lc, "filter"))
    THEN "400"
    ELSE IF includes(lc, "resource exhausted") \/ includes(lc, "quota exceeded") THEN "429"
         ELSE ""

\* Variant of priorityCode: without the safety-filter branch.
priorityCodeCapacityOnly(lc) ==
    IF includes(lc, "resource exhausted") \/ includes(lc, "quota exceeded") THEN "429"
    ELSE ""

\* 1. Priority keywords.
priorityCode(lc) ==
    IF includes(lc, "resource exhausted") \/ includes(lc, "quota exceeded") THEN "429"
    ELSE IF includes(lc, "bad request") /\ (includes(lc, "safety") \/ includes(lc, "filter"))
         THEN "400"
         ELSE ""

\* 2a. error.code of the JSON object embedded in the message; a SyntaxError
\* of JSON.parse is caught and leaves the code unset.
jsonCode(msg) ==
    LET text == jsonMatch(msg)
    IN  IF text = "" THEN ""
        ELSE LET errorObj == JSONparse(text)
             IN  IF ~errorObj.ok THEN ""
                 ELSE LET code == GetProp(GetProp(errorObj.val, "error"), "code")
                      IN  IF Truthy(code) THEN JsString(code) ELSE ""

\* 2b. The first three-digit number of the message.
numericCode(msg) == codeMatch(msg)

\* 2c. General keywords.
keywordCode(lc) ==
    IF includes(lc, "permission denied") \/ includes(lc, "api key not valid") THEN "403"
    ELSE IF includes(lc, "bad request") THEN "400"
    ELSE IF includes(lc, "server error") \/ includes(lc, "503") THEN "500"
    ELSE IF includes(lc, "failed to fetch") THEN "NET"
    ELSE ""

isVeoError(lc) == includes(lc, "veo auth token")

\* Variant of veoRecovery: only 401 counts as an authorization failure.
veoRecovery401Only(code, lc) == code = "401" /\ isVeoError(lc)

veoRecovery(code, lc) == code \in {"403", "401"} /\ isVeoError(lc)

isApiKeyError(code, lc) ==
    code \in {"403", "401"} \/ (code = "400" /\ includes(lc, "api key not valid"))

\* Variant of defaultMessage: a first line of exactly 150 characters is
\* already too long.
defaultMessageAtLeast(msg) ==
    LET firstLine == FirstLineOf(msg)
    IN  IF Len(firstLine) >= MaxFirstLine \/ includes(firstLine, VendorTag)
        THEN MsgGeneric
        ELSE firstLine

\* The default branch of the switch.
defaultMessage(msg) ==
    LET firstLine == FirstLineOf(msg)
    IN  IF Len(firstLine) > MaxFirstLine \/ includes(firstLine, VendorTag)
        THEN MsgGeneric
        ELSE firstLine

\* The switch on the error code.
cannedMessage(code, msg) ==
    CASE code = "400" -> MsgSafety
      [] code = "429" -> MsgCapacity
      [] code \in {"500", "503"} -> MsgUnavailable
      [] code = "NET" -> MsgNetwork
      [] OTHER -> defaultMessage(msg)

(***************************************************************************)
(* Inputs: the values a caller can pass.                                   *)
(***************************************************************************)
Filler == "zzzzzzzzzzzzzzzzzzzzzzzzzzzzzzzzzzzzzzzzzzzzzzzzzzzzzzzzzzzzzzzzzzzzzzzzzzz"

Fragments ==
    { "Resource Exhausted", "quota exceeded", "Bad Request", "safety filter",
      "{\"error\":{\"code\":403}}", "{\"error\":{\"code\":\"UNAVAILABLE\"}}",
      "[404]", "503", "permission denied", "API key not valid", "server error",
      "Failed to fetch", "veo auth token", "\n", VendorTag, Filler }

RECURSIVE Concat(_)
Concat(fs) == IF fs = <<>> THEN "" ELSE Head(fs) \o Concat(Tail(fs))

Messages == {Concat(fs) : fs \in UNION {[1..n -> Fragments] : n \in 0..MaxFrags}}

\* Error objects carry a message; the other values are converted by String().
ErrorValues ==
    {[kind |-> "Error", text |-> m] : m \in Messages}
        \cup {[kind |-> "string", text |-> m] : m \in Fragments}
        \cup {[kind |-> k, text |-> ""] : k \in {"null", "undefined", "object", "nullProtoObject"}}

NoError == [kind |-> "none", text |-> ""]

\* String(error) of a value that is not an Error; an object without a
\* prototype has no toString and the conversion throws a TypeError.
StringOf(e) ==
    CASE e.kind = "string" -> e.text
      [] e.kind = "null" -> "null"
      [] e.kind = "undefined" -> "undefined"
      [] e.kind = "object" -> "[object Object]"

(***************************************************************************)
(* The call, statement by statement.                                       *)
(***************************************************************************)
VARIABLES pc, error, message, lowerCaseMessage, errorCode,
          webhookCalls, dispatched, result, path

vars == <<pc, error, message, lowerCaseMessage, errorCode,
          webhookCalls, dispatched, result, path>>

Init ==
    /\ pc = "idle"
    /\ error = NoError
    /\ message = ""
    /\ lowerCaseMessage = ""
    /\ errorCode = ""
    /\ webhookCalls = <<>>
    /\ dispatched = <<>>
    /\ result = ""
    /\ path = <<>>

\* A caller invokes handleApiError(e).
Call ==
    /\ pc = "idle"
    /\ \E e \in ErrorValues : error' = e
    /\ pc' = "webhook"
    /\ UNCHANGED <<message, lowerCaseMessage, errorCode, webhookCalls, dispatched, result, path>>

\* Variant of TriggerWebhook: only Error objects are reported.
TriggerWebhookErrorsOnly ==
    /\ pc = "webhook"
    /\ webhookCalls' = (IF error.kind = "Error" THEN Append(webhookCalls, error) ELSE webhookCalls)
    /\ pc' = "normalize"
    /\ path' = Append(path, "webhook")
    /\ UNCHANGED <<error, message, lowerCaseMessage, errorCode, dispatched, result>>

\* triggerErrorWebhook(error).
TriggerWebhook ==
    /\ pc = "webhook"
    /\ webhookCalls' = Append(webhookCalls, error)
    /\ pc' = "normalize"
    /\ path' = Append(path, "webhook")
    /\ UNCHANGED <<error, message, lowerCaseMessage, errorCode, dispatched, result>>

\* Variant of Normalize: the keyword checks read the message as given.
NormalizeKeepCase ==
    /\ pc = "normalize"
    /\ path' = Append(path, "normalize")
    /\ IF error.kind = "nullProtoObject"
       THEN /\ pc' = "thrown"
            /\ UNCHANGED <<message, lowerCaseMessage>>
       ELSE /\ message' = (IF error.kind = "Error" THEN error.text ELSE StringOf(error))
            /\ lowerCaseMessage' = message'
            /\ pc' = "priority"
    /\ UNCHANGED <<error, errorCode, webhookCalls, dispatched, result>>

\* message = error.message or String(error); lowerCaseMessage.
Normalize ==
    /\ pc = "normalize"
    /\ path' = Append(path, "normalize")
    /\ IF error.kind = "nullProtoObject"
       THEN /\ pc' = "thrown"
            /\ UNCHANGED <<message, lowerCaseMessage>>
       ELSE /\ message' = (IF error.kind = "Error" THEN error.text ELSE StringOf(error))
            /\ lowerCaseMessage' = toLowerCase(message')
            /\ pc' = "priority"
    /\ UNCHANGED <<error, errorCode, webhookCalls, dispatched, result>>

\* Variant of PriorityKeywords: the generic parsing is not guarded by
\* !errorCode.
PriorityKeywordsNoGuard ==
    /\ pc = "priority"
    /\ errorCode' = priorityCode(lowerCaseMessage)
    /\ pc' = "json"
    /\ path' = Append(path, "priority")
    /\ UNCHANGED <<error, message, lowerCaseMessage, webhookCalls, dispatched, result>>

\* 1. The priority keyword pass; the generic parsing is skipped when it
\* yields a code.
PriorityKeywords ==
    /\ pc = "priority"
    /\ errorCode' = priorityCode(lowerCaseMessage)
    /\ pc' = (IF errorCode' # "" THEN "veo" ELSE "json")
    /\ path' = Append(path, "priority")
    /\ UNCHANGED <<error, message, lowerCaseMessage, webhookCalls, dispatched, result>>

\* 2a. The JSON error.code.
JsonExtraction ==
    /\ pc = "json"
    /\ errorCode' = jsonCode(message)
    /\ pc' = (IF errorCode' # "" THEN "veo" ELSE "numeric")
    /\ path' = Append(path, "json")
    /\ UNCHANGED <<error, message, lowerCaseMessage, webhookCalls, dispatched, result>>

\* 2b. The first three-digit number.
NumericSearch ==
    /\ pc = "numeric"
    /\ errorCode' = numericCode(message)
    /\ pc' = (IF errorCode' # "" THEN "veo" ELSE "keywords")
    /\ path' = Append(path, "numeric")
    /\ UNCHANGED <<error, message, lowerCaseMessage, webhookCalls, dispatched, result>>

\* 2c. The general keywords.
KeywordInference ==
    /\ pc = "keywords"
    /\ errorCode' = keywordCode(lowerCaseMessage)
    /\ pc' = "veo"
    /\ path' = Append(path, "keywords")
    /\ UNCHANGED <<error, message, lowerCaseMessage, webhookCalls, dispatched, result>>

\* Variant of VeoCheck: the Veo branch does not return.
VeoCheckNoReturn ==
    /\ pc = "veo"
    /\ path' = Append(path, "veo")
    /\ IF veoRecovery(errorCode, lowerCaseMessage)
       THEN /\ dispatched' = Append(dispatched, VeoSignal)
            /\ result' = MsgVeo
            /\ pc' = "apikey"
       ELSE /\ pc' = "apikey"
            /\ UNCHANGED <<dispatched, result>>
    /\ UNCHANGED <<error, message, lowerCaseMessage, errorCode, webhookCalls>>

\* The Veo recovery flow.
VeoCheck ==
    /\ pc = "veo"
    /\ path' = Append(path, "veo")
    /\ IF veoRecovery(errorCode, lowerCaseMessage)
       THEN /\ dispatched' = Append(dispatched, VeoSignal)
            /\ result' = MsgVeo
            /\ pc' = "done"
       ELSE /\ pc' = "apikey"
            /\ UNCHANGED <<dispatched, result>>
    /\ UNCHANGED <<error, message, lowerCaseMessage, errorCode, webhookCalls>>

\* The API-key recovery flow.
ApiKeyCheck ==
    /\ pc = "apikey"
    /\ path' = Append(path, "apikey")
    /\ IF isApiKeyError(errorCode, lowerCaseMessage)
       THEN /\ dispatched' = Append(dispatched, ApiKeySignal)
            /\ result' = MsgApiKey
            /\ pc' = "done"
       ELSE /\ pc' = "switch"
            /\ UNCHANGED <<dispatched, result>>
    /\ UNCHANGED <<error, message, lowerCaseMessage, errorCode, webhookCalls>>

\* The switch on the error code.
CannedSwitch ==
    /\ pc = "switch"
    /\ path' = Append(path, "switch")
    /\ result' = cannedMessage(errorCode, message)
    /\ pc' = "done"
    /\ UNCHANGED <<error, message, lowerCaseMessage, errorCode, webhookCalls, dispatched>>

Next ==
    \/ Call
    \/ TriggerWebhook
    \/ Normalize
    \/ PriorityKeywords
    \/ JsonExtraction
    \/ NumericSearch
    \/ KeywordInference
    \/ VeoCheck
    \/ ApiKeyCheck
    \/ CannedSwitch

Spec == Init /\ [][Next]_vars

(***************************************************************************)
(* The call as a function of the message: the code, the signals and the    *)
(* returned string of handleApiError(new Error(msg)).                      *)
(***************************************************************************)
detectCode(msg) ==
    LET lc == toLowerCase(msg)
        p == priorityCode(lc)
        j == jsonCode(msg)
        n == numericCode(msg)
    IN  IF p # "" THEN p
        ELSE IF j # "" THEN j
        ELSE IF n # "" THEN n
        ELSE keywordCode(lc)

handleApiError(msg) ==
    LET lc == toLowerCase(msg)
        code == detectCode(msg)
    IN  IF veoRecovery(code, lc)
        THEN [code |-> code, signals |-> <<VeoSignal>>, returns |-> MsgVeo]
        ELSE IF isApiKeyError(code, lc)
        THEN [code |-> code, signals |-> <<ApiKeySignal>>, returns |-> MsgApiKey]
        ELSE [code |-> code, signals |-> <<>>, returns |-> cannedMessage(code, msg)]

(***************************************************************************)
(* Properties.                                                             *)
(***************************************************************************)
FixedMessages ==
    {MsgVeo, MsgApiKey, MsgSafety, MsgCapacity, MsgUnavailable, MsgNetwork, MsgGeneric}

Ran(step) == \E i \in DOMAIN path : path[i] = step

\* r is the first line of m: r has no newline and m is r, or r followed by
\* a newline and more text.
IsFirstLine(r, m) ==
    /\ ~includes(r, "\n")
    /\ \/ m = r
       \/ Len(m) > Len(r) /\ SubSeq(m, 1, Len(r) + 1) = r \o "\n"

\* The class of a result: the error code, the published signals and which
\* fixed message was returned (or that the first line was).
ClassOf(code, signals, returned) ==
    [code |-> code, signals |-> signals,
     choice |-> IF returned \in FixedMessages THEN returned ELSE "first line"]

\* C1: every call returns a string and never raises an exception to its
\* caller, whatever value it is given.
C1_NeverRaises == pc # "thrown"

\* C2: the webhook is called exactly once per call with the raw error, as
\* the first thing the call does: nothing is classified, published or
\* returned before it, and every call that ended has made the one call.
C2_WebhookOnceFirst ==
    /\ path # <<>> => Head(path) = "webhook"
    /\ webhookCalls = (IF path = <<>> THEN <<>> ELSE <<error>>)
    /\ webhookCalls = <<>> => (errorCode = "" /\ dispatched = <<>> /\ result = "")
    /\ pc \in {"done", "thrown"} => webhookCalls = <<error>>

C2_Witness ==
    /\ pc = "done"
    /\ errorCode = ""
    /\ result = message
    /\ message # ""
    /\ webhookCalls = <<error>>

\* C3: a call publishes at most one signal, it is one of the two recovery
\* signals, and a call that published has returned the matching recovery
\* message without reaching the switch.
C3_AtMostOneSignal ==
    /\ Len(dispatched) <= 1
    /\ \A i \in DOMAIN dispatched : dispatched[i] \in {VeoSignal, ApiKeySignal}
    /\ dispatched # <<>> =>
          /\ pc = "done"
          /\ ~Ran("switch")
          /\ result = (IF dispatched[1] = VeoSignal THEN MsgVeo ELSE MsgApiKey)

C3_Witness ==
    /\ pc = "done"
    /\ dispatched = <<VeoSignal>>
    /\ isApiKeyError(errorCode, lowerCaseMessage)

\* C4: a message containing "resource exhausted" in any letter case is
\* classified 429 and answered with the capacity message, whatever numeric
\* codes it also carries.
C4_ResourceExhausted ==
    (pc = "done" /\ includes(toLowerCase(message), "resource exhausted"))
        => (errorCode = "429" /\ result = MsgCapacity)

C4_Witness ==
    /\ pc = "done"
    /\ includes(message, "Resource Exhausted")
    /\ jsonMatch(message) = "{\"error\":{\"code\":403}}"
    /\ includes(message, "[404]")
    /\ result = MsgCapacity

BadRequestSafety(lc) ==
    /\ includes(lc, "bad request")
    /\ includes(lc, "safety filter")
    /\ ~includes(lc, "resource exhausted")
    /\ ~includes(lc, "quota exceeded")

\* C5, as claimed: a message with "bad request" and "safety filter" (and no
\* capacity keyword) is classified 400 and answered with the safety-filter
\* message, whatever else it contains.
C5_Original ==
    (pc = "done" /\ BadRequestSafety(lowerCaseMessage))
        => (errorCode = "400" /\ result = MsgSafety)

\* C5, amended: such a message is classified 400 whatever else it contains;
\* it is answered with the safety-filter message and no signal, unless it
\* also contains "api key not valid": then the API-key signal is published
\* and the invalid-API-key message returned.
C5_SafetyFilter ==
    (pc = "done" /\ BadRequestSafety(lowerCaseMessage))
        => /\ errorCode = "400"
           /\ IF includes(lowerCaseMessage, "api key not valid")
              THEN result = MsgApiKey /\ dispatched = <<ApiKeySignal>>
              ELSE result = MsgSafety /\ dispatched = <<>>

C5_Witness ==
    /\ pc = "done"
    /\ BadRequestSafety(lowerCaseMessage)
    /\ jsonMatch(message) = "{\"error\":{\"code\":403}}"
    /\ result = MsgSafety

\* C6: when no priority keyword matches and the embedded JSON object is
\* {"error":{"code":403}}, a message with "veo auth token" gets the Veo
\* message and exactly the Veo signal, any other message the API-key
\* message and exactly the API-key signal.
C6_Json403 ==
    (/\ pc = "done"
     /\ jsonMatch(message) = "{\"error\":{\"code\":403}}"
     /\ priorityCode(lowerCaseMessage) = "")
        => IF includes(lowerCaseMessage, "veo auth token")
           THEN result = MsgVeo /\ dispatched = <<VeoSignal>>
           ELSE result = MsgApiKey /\ dispatched = <<ApiKeySignal>>

C6_Witness ==
    /\ pc = "done"
    /\ jsonMatch(message) = "{\"error\":{\"code\":403}}"
    /\ includes(message, "veo auth token")
    /\ dispatched = <<VeoSignal>>

\* C7: with no error code (and no signal), the first line of the message is
\* returned unmodified when it has at most 150 characters and no vendor
\* tag, and the generic message is returned when it has more than 150.
C7_FirstLineFallback ==
    (pc = "done" /\ errorCode = "" /\ dispatched = <<>>)
        => LET breaks == {i \in 1..Len(message) : SubSeq(message, i, i) = "\n"}
               n == IF breaks = {} THEN Len(message) ELSE Min(breaks) - 1
               line == SubSeq(message, 1, n)
           IN  /\ (Len(line) <= 150 /\ ~includes(line, VendorTag)) => result = line
               /\ Len(line) > 150 => result = MsgGeneric

C7_Witness ==
    /\ pc = "done"
    /\ errorCode = ""
    /\ Len(message) > 150
    /\ ~includes(message, "\n")
    /\ result = MsgGeneric

\* C8: the error code is the result of the first heuristic that yields one
\* (priority keywords, JSON error.code, three-digit number, general
\* keywords); a heuristic has run exactly when all earlier ones yielded
\* nothing, so no later heuristic overrides an earlier result.
C8_FirstHeuristicWins ==
    pc = "done" =>
        LET p == priorityCode(lowerCaseMessage)
            j == jsonCode(message)
            n == numericCode(message)
            k == keywordCode(lowerCaseMessage)
        IN  /\ Ran("priority")
            /\ Ran("json") <=> p = ""
            /\ Ran("numeric") <=> (p = "" /\ j = "")
            /\ Ran("keywords") <=> (p = "" /\ j = "" /\ n = "")
            /\ errorCode = (IF p # "" THEN p ELSE IF j # "" THEN j ELSE IF n # "" THEN n ELSE k)

C8_Witness ==
    /\ pc = "done"
    /\ priorityCode(lowerCaseMessage) = ""
    /\ jsonCode(message) = "403"
    /\ numericCode(message) = "404"
    /\ keywordCode(lowerCaseMessage) = "500"
    /\ errorCode = "403"

\* The result class of this call and of the call on the message m.
ThisClass == ClassOf(errorCode, dispatched, result)
ClassFor(m) ==
    LET twin == handleApiError(m)
    IN  ClassOf(twin.code, twin.signals, twin.returns)

\* C9, as claimed: two messages that differ only in letter case get the
\* same class of result (here: a message and its lower-cased copy).
C9_Original == pc = "done" => ThisClass = ClassFor(toLowerCase(message))

\* C9, amended: the keyword checks read the lower-cased copy, but the JSON
\* extraction and the vendor-tag check read the message as given: a message
\* and its lower-cased copy get the same class of result when the JSON
\* extraction yields the same code for both and the first line of both or
\* of neither contains the vendor tag.
C9_CaseInsensitiveKeywords ==
    pc = "done" =>
        LET lower == toLowerCase(message)
        IN  (/\ includes(FirstLineOf(message), VendorTag)
                    = includes(FirstLineOf(lower), VendorTag)
             /\ jsonCode(message) = jsonCode(lower))
                => ThisClass = ClassFor(lower)

C9_Witness ==
    /\ pc = "done"
    /\ includes(message, "Bad Request")
    /\ includes(message, "API key not valid")
    /\ errorCode = "400"
    /\ dispatched = <<ApiKeySignal>>

\* C10: the returned string is one of the seven fixed messages or the first
\* line of the message; it has at most 150 characters, no newline and no
\* vendor tag.
C10_ReturnedString ==
    pc = "done" =>
        /\ result \in FixedMessages \/ IsFirstLine(result, message)
        /\ Len(result) <= 150
        /\ ~includes(result, "\n")
        /\ ~includes(result, VendorTag)

C10_Witness ==
    /\ pc = "done"
    /\ result \notin FixedMessages
    /\ result # message
    /\ includes(message, VendorTag)
    /\ errorCode # ""

====
